---- MODULE Spec2Model ----
(***************************************************************************)
(* A model of src/main.py: the World (board of locked cells, completion    *)
(* and collapse of lines), the Piece (random growth, rotation, translation *)
(* with collision detection) and the driver loop of main.                  *)
(*                                                                         *)
(* A cell is a pair <<x, y>>; x grows to the right, y grows upward.        *)
(* Python lists are 0-indexed, TLA+ sequences 1-indexed: element i of a    *)
(* Python list l is l[i + 1] here.                                         *)
(***************************************************************************)
EXTENDS Integers, Sequences, FiniteSets, TLC

VARIABLES
    board,              \* World.board: the set of locked cells
    state,              \* Piece.state: the cells of the falling piece
    pc,                 \* position of the caller / of main
    op,                 \* the last operation called, with its arguments
    ret,                \* what the last displace call returned
    num_deleted_lines,  \* what the last resolveCompleteLines call returned
    oldBoard,           \* World.board when the last operation was called
    oldState,           \* Piece.state when the last operation was called
    state0,             \* Piece.state when the piece was constructed / drawn
    count,              \* operations applied to the piece so far
    pieces,             \* pieces constructed by main so far
    score               \* main's score

vars == <<board, state, pc, op, ret, num_deleted_lines, oldBoard, oldState,
          state0, count, pieces, score>>

----------------------------------------------------------------------------
(* Program constants *)

WIDTH == 10

HEIGHT == 20

\* getDisplacementsPerLine: the row that closes the table after the last deleted line
TABLE_END == 50

\* initializeState: y_start
Y_START == 16

\* initializeState: the cubes added to the first one, range(3)
CUBES == 3

----------------------------------------------------------------------------
(* Bounds of the model *)

\* rows of the window in which a drawn board has cells
MaxRows == 5

\* random.random() is drawn from the RandomSteps values k / RandomSteps
RandomSteps == 32

\* the longest step, in cells, of a drawn call of displace
MaxStep == 1

\* the longest run of calls of rotate on a drawn piece
MaxRotations == 4

\* the pieces main constructs before the run is cut off
MaxPieces == 1

\* the keys main reads before a run of any number of pieces is cut off
MaxTicks == 1

\* the longest sequence of calls of rotate and displace on a drawn piece
MaxMoves == 2

----------------------------------------------------------------------------
(* World *)

Row(y) == {<<x, y>> : x \in 0..(WIDTH - 1)}

\* lineIsComplete with the loop starting one column late
lineIsComplete_short(b, y) == \A x \in 1..(WIDTH - 1) : <<x, y>> \in b

lineIsComplete(b, y) == \A x \in 0..(WIDTH - 1) : <<x, y>> \in b

\* the scan of resolveCompleteLines: the complete rows of 0..HEIGHT-1, ascending
RECURSIVE CompleteLinesFrom(_, _)
CompleteLinesFrom(b, y) ==
    IF y >= HEIGHT THEN <<>>
    ELSE (IF lineIsComplete(b, y) THEN <<y>> ELSE <<>>) \o CompleteLinesFrom(b, y + 1)

\* one round i of the loop of getDisplacementsPerLine, and the rounds after it
RECURSIVE DisplacementsFrom(_, _)
DisplacementsFrom(deleted_lines, i) ==
    IF i > Len(deleted_lines) THEN <<>>
    ELSE LET cur_y  == IF i < Len(deleted_lines) THEN deleted_lines[i + 1] ELSE TABLE_END
             prev_y == IF i > 0 THEN deleted_lines[i] ELSE -1
         IN  [k \in 1..(cur_y - prev_y - 1) |-> i] \o <<0>>
                 \o DisplacementsFrom(deleted_lines, i + 1)

\* getDisplacementsPerLine without the entry of the deleted line itself
RECURSIVE DisplacementsNoGapFrom(_, _)
DisplacementsNoGapFrom(deleted_lines, i) ==
    IF i > Len(deleted_lines) THEN <<>>
    ELSE LET cur_y  == IF i < Len(deleted_lines) THEN deleted_lines[i + 1] ELSE TABLE_END
             prev_y == IF i > 0 THEN deleted_lines[i] ELSE -1
         IN  [k \in 1..(cur_y - prev_y - 1) |-> i]
                 \o DisplacementsNoGapFrom(deleted_lines, i + 1)

getDisplacementsPerLine_nogap(deleted_lines) == DisplacementsNoGapFrom(deleted_lines, 0)

\* getDisplacementsPerLine shifting every line by one more than it should
getDisplacementsPerLine_plus(deleted_lines) ==
    LET t == DisplacementsFrom(deleted_lines, 0)
    IN  [k \in 1..Len(t) |-> t[k] + 1]

getDisplacementsPerLine(deleted_lines) == DisplacementsFrom(deleted_lines, 0)

\* deleteLine with the loop starting one column late
deleteLine_late(b, y) == b \ {<<x, y>> : x \in 1..(WIDTH - 1)}

deleteLine(b, y) == b \ Row(y)

\* the loop "for y in deleted_lines: self.deleteLine(y)", from element i on
RECURSIVE DeleteLinesFrom(_, _, _)
DeleteLinesFrom(b, deleted_lines, i) ==
    IF i > Len(deleted_lines) THEN b
    ELSE DeleteLinesFrom(deleteLine(b, deleted_lines[i]), deleted_lines, i + 1)

\* the loop over enumerate(displacements_per_line), from row y on: the cells
\* of row y in columns 0..WIDTH-1 are removed and added displacement lower
RECURSIVE TranslateLinesFrom(_, _, _)
TranslateLinesFrom(b, displacements_per_line, y) ==
    IF y >= Len(displacements_per_line) THEN b
    ELSE LET displacement == displacements_per_line[y + 1]
             present      == b \cap Row(y)
             moved        == {<<c[1], y - displacement>> : c \in present}
         IN  TranslateLinesFrom((b \ present) \cup moved, displacements_per_line, y + 1)

\* resolveCompleteLines that stops after the first complete line
resolveCompleteLines_first(b) ==
    LET found         == CompleteLinesFrom(b, 0)
        deleted_lines == IF Len(found) > 0 THEN <<found[1]>> ELSE <<>>
        deleted       == DeleteLinesFrom(b, deleted_lines, 1)
        displacements_per_line == getDisplacementsPerLine(deleted_lines)
    IN  [board |-> TranslateLinesFrom(deleted, displacements_per_line, 0),
         ret   |-> Len(deleted_lines)]

resolveCompleteLines(b) ==
    LET deleted_lines == CompleteLinesFrom(b, 0)
        deleted       == DeleteLinesFrom(b, deleted_lines, 1)
        displacements_per_line == getDisplacementsPerLine(deleted_lines)
    IN  [board |-> TranslateLinesFrom(deleted, displacements_per_line, 0),
         ret   |-> Len(deleted_lines)]

addPiece(b, st) == b \cup st

checkIfCoordInState(b, x, y) == <<x, y>> \in b

addLine(b, y) == b \cup Row(y)

----------------------------------------------------------------------------
(* Piece *)

Min(S) == CHOOSE m \in S : \A n \in S : m <= n

adjacentPositions(x, y) == {<<x - 1, y>>, <<x + 1, y>>, <<x, y - 1>>, <<x, y + 1>>}

\* boundaryOfState without "- self.state": the cells of the piece count as boundary
boundaryOfState_all(st) == UNION {adjacentPositions(c[1], c[2]) : c \in st}

boundaryOfState(st) == UNION {adjacentPositions(c[1], c[2]) \ st : c \in st}

\* every state random.choice can make of st
addCubeToState(st) == {st \cup {c} : c \in boundaryOfState(st)}

\* round(1 + r * 8) for r = k / RandomSteps, 0 <= k < RandomSteps; Python's
\* round takes a tie to the even neighbour
x_start(k) ==
    LET num == RandomSteps + 8 * k
        q   == num \div RandomSteps
        rem == num % RandomSteps
    IN  IF 2 * rem < RandomSteps THEN q
        ELSE IF 2 * rem > RandomSteps THEN q + 1
        ELSE IF q % 2 = 0 THEN q ELSE q + 1

\* the states n more calls of addCubeToState can make of the states sts
RECURSIVE GrowFrom(_, _)
GrowFrom(sts, n) ==
    IF n = 0 THEN sts
    ELSE GrowFrom(UNION {addCubeToState(st) : st \in sts}, n - 1)

\* every state initializeState can make, over random.random and random.choice
initializeState ==
    UNION {GrowFrom({{<<x_start(k), Y_START>>}}, CUBES) : k \in 0..(RandomSteps - 1)}

\* rotate without the second reflection
rotate_diagonal(st) ==
    LET min_x == Min({p[1] : p \in st})
        min_y == Min({p[2] : p \in st})
    IN  {<<min_x + (p[2] - min_y), min_y + (p[1] - min_x)>> : p \in st}

\* rotate with "if" in place of "elif": a cell sent to max_y is sent back
rotate_twoifs(st) ==
    LET min_x == Min({p[1] : p \in st})
        min_y == Min({p[2] : p \in st})
        max_y == min_y + 2
        diagonal(p) == <<min_x + (p[2] - min_y), min_y + (p[1] - min_x)>>
        horizontal(q) == IF q[2] = min_y \/ q[2] = max_y THEN <<q[1], min_y>> ELSE q
    IN  {horizontal(diagonal(p)) : p \in st}

rotate(st) ==
    LET min_x == Min({p[1] : p \in st})
        max_x == min_x + 2
        min_y == Min({p[2] : p \in st})
        max_y == min_y + 2
        diagonal(p) == <<min_x + (p[2] - min_y), min_y + (p[1] - min_x)>>
        horizontal(q) == IF q[2] = min_y THEN <<q[1], max_y>>
                         ELSE IF q[2] = max_y THEN <<q[1], min_y>>
                         ELSE q
    IN  {horizontal(diagonal(p)) : p \in st}

\* Collides without the floor
Collides_nofloor(new_coord, b) ==
    \/ new_coord \in b
    \/ new_coord[1] >= WIDTH
    \/ new_coord[1] < 0

\* Collides with the right wall one column too far
Collides_wide(new_coord, b) ==
    \/ new_coord \in b
    \/ new_coord[1] > WIDTH
    \/ new_coord[1] < 0
    \/ new_coord[2] < 0

\* what stops a cell of displace: a locked cell, a side wall or the floor
Collides(new_coord, b) ==
    \/ new_coord \in b
    \/ new_coord[1] >= WIDTH
    \/ new_coord[1] < 0
    \/ new_coord[2] < 0

\* displace without its assertion
displace_noassert(st, dx, dy, b) ==
    IF \E c \in st : Collides(<<c[1] + dx, c[2] + dy>>, b)
    THEN [state |-> st, ret |-> IF dy # 0 THEN "True" ELSE "False", board |-> b]
    ELSE [state |-> {<<c[1] + dx, c[2] + dy>> : c \in st}, ret |-> "None", board |-> b]

\* displace keeping the cells it has moved when a later cell collides
displace_partial(st, dx, dy, b) ==
    IF (dx = 0) = (dy = 0)
    THEN [state |-> st, ret |-> "AssertionError", board |-> b]
    ELSE IF \E c \in st : Collides(<<c[1] + dx, c[2] + dy>>, b)
         THEN [state |-> {IF Collides(<<c[1] + dx, c[2] + dy>>, b)
                             THEN c ELSE <<c[1] + dx, c[2] + dy>> : c \in st},
               ret |-> IF dy # 0 THEN "True" ELSE "False", board |-> b]
         ELSE [state |-> {<<c[1] + dx, c[2] + dy>> : c \in st}, ret |-> "None",
               board |-> b]

\* displace adding the piece to the board itself when it collides below
displace_sticks(st, dx, dy, b) ==
    IF (dx = 0) = (dy = 0)
    THEN [state |-> st, ret |-> "AssertionError", board |-> b]
    ELSE IF \E c \in st : Collides(<<c[1] + dx, c[2] + dy>>, b)
         THEN [state |-> st, ret |-> IF dy # 0 THEN "True" ELSE "False",
               board |-> IF dy # 0 THEN b \cup st ELSE b]
         ELSE [state |-> {<<c[1] + dx, c[2] + dy>> : c \in st}, ret |-> "None",
               board |-> b]

\* displace: the state of the piece after the call, what the call returns
\* ("None" when the function ends without a return statement, "AssertionError"
\* when the assert statement raises) and world.board after the call
displace(st, dx, dy, b) ==
    IF (dx = 0) = (dy = 0)
    THEN [state |-> st, ret |-> "AssertionError", board |-> b]
    ELSE IF \E c \in st : Collides(<<c[1] + dx, c[2] + dy>>, b)
         THEN [state |-> st, ret |-> IF dy # 0 THEN "True" ELSE "False", board |-> b]
         ELSE [state |-> {<<c[1] + dx, c[2] + dy>> : c \in st}, ret |-> "None",
               board |-> b]

----------------------------------------------------------------------------
(* Boards drawn for the calls of resolveCompleteLines *)

NoOp == [name |-> "none", dx |-> 0, dy |-> 0]

\* what a row of a drawn board can hold
RowPattern(p, y) ==
    CASE p = 0 -> {}
      [] p = 1 -> Row(y)
      [] p = 2 -> {<<0, y>>}
      [] p = 3 -> Row(y) \ {<<0, y>>}

\* one cell outside the grid, or none
OutsideCells ==
    {{}, {<<0, HEIGHT>>}, {<<1, TABLE_END - 1>>}, {<<1, TABLE_END>>},
     {<<1, TABLE_END + 1>>}, {<<-1, 0>>}, {<<WIDTH, 1>>}, {<<0, -1>>}}

WindowBases == {0, HEIGHT - MaxRows}

DrawnBoard(base, f, outside) ==
    UNION {RowPattern(f[k], base + k - 1) : k \in 1..MaxRows} \cup outside

InGrid(b) == \A c \in b : c[1] >= 0 /\ c[1] < WIDTH /\ c[2] >= 0 /\ c[2] < HEIGHT

----------------------------------------------------------------------------
(* resolveCompleteLines called once on a drawn board *)

InitResolve ==
    /\ \E base \in WindowBases : \E f \in [1..MaxRows -> 0..3] :
         \E outside \in OutsideCells : board = DrawnBoard(base, f, outside)
    /\ state = {}
    /\ pc = "ready"
    /\ op = NoOp
    /\ ret = "-"
    /\ num_deleted_lines = 0
    /\ oldBoard = board
    /\ oldState = {}
    /\ state0 = {}
    /\ count = 0
    /\ pieces = 0
    /\ score = 0

CallResolve ==
    /\ pc = "ready"
    /\ LET r == resolveCompleteLines(board)
       IN  /\ board' = r.board
           /\ num_deleted_lines' = r.ret
    /\ oldBoard' = board
    /\ op' = [name |-> "resolveCompleteLines", dx |-> 0, dy |-> 0]
    /\ pc' = "returned"
    /\ UNCHANGED <<state, ret, oldState, state0, count, pieces, score>>

NextResolve == CallResolve

SpecResolve == InitResolve /\ [][NextResolve]_vars

----------------------------------------------------------------------------
(* displace called once on a drawn piece against a drawn board *)

Translated(st, dx, dy) == {<<c[1] + dx, c[2] + dy>> : c \in st}

\* the pieces initializeState can make, where they appear and just above the floor
DrawnPieces == initializeState \cup {Translated(st, 0, 3 - Y_START) : st \in initializeState}

Grid == (0..(WIDTH - 1)) \X (0..(HEIGHT - 1))

\* the empty board, the board main starts with, a full column and a lattice
PieceBoards ==
    {{}, addLine(addLine({}, 0), 1), {c \in Grid : c[1] = 4},
     {c \in Grid : (c[1] + 2 * c[2]) % 5 = 0}}

InitPiece ==
    /\ state \in DrawnPieces
    /\ board \in PieceBoards
    /\ pc = "ready"
    /\ op = NoOp
    /\ ret = "-"
    /\ num_deleted_lines = 0
    /\ oldBoard = board
    /\ oldState = state
    /\ state0 = state
    /\ count = 0
    /\ pieces = 0
    /\ score = 0

CallDisplace(dx, dy) ==
    /\ pc = "ready"
    /\ LET r == displace(state, dx, dy, board)
       IN  /\ state' = r.state
           /\ ret' = r.ret
           /\ board' = r.board
    /\ oldState' = state
    /\ oldBoard' = board
    /\ op' = [name |-> "displace", dx |-> dx, dy |-> dy]
    /\ pc' = "returned"
    /\ count' = count + 1
    /\ UNCHANGED <<num_deleted_lines, state0, pieces, score>>

NextDisplace == \E dx, dy \in (-MaxStep)..MaxStep : CallDisplace(dx, dy)

SpecDisplace == InitPiece /\ [][NextDisplace]_vars

----------------------------------------------------------------------------
(* rotate called again and again on a drawn piece *)

CallRotate ==
    /\ pc = "ready"
    /\ count < MaxRotations
    /\ state' = rotate(state)
    /\ oldState' = state
    /\ oldBoard' = board
    /\ op' = [name |-> "rotate", dx |-> 0, dy |-> 0]
    /\ count' = count + 1
    /\ UNCHANGED <<board, pc, ret, num_deleted_lines, state0, pieces, score>>

NextRotate == CallRotate

SpecRotate == InitPiece /\ [][NextRotate]_vars

----------------------------------------------------------------------------
(* rotate and displace called in any order on a drawn piece *)

MoveRotate ==
    /\ pc = "ready"
    /\ count < MaxMoves
    /\ state' = rotate(state)
    /\ oldBoard' = board
    /\ op' = [name |-> "rotate", dx |-> 0, dy |-> 0]
    /\ count' = count + 1
    /\ UNCHANGED <<board, pc, ret, num_deleted_lines, oldState, state0, pieces, score>>

MoveDisplace(dx, dy) ==
    /\ pc = "ready"
    /\ count < MaxMoves
    /\ LET r == displace(state, dx, dy, board)
       IN  /\ state' = r.state
           /\ ret' = r.ret
           /\ board' = r.board
    /\ oldBoard' = board
    /\ op' = [name |-> "displace", dx |-> dx, dy |-> dy]
    /\ count' = count + 1
    /\ UNCHANGED <<pc, num_deleted_lines, oldState, state0, pieces, score>>

\* the steps main asks of displace: one cell left, right or down, and
\* their combinations and opposites
UnitSteps == {-1, 0, 1}

NextMoves ==
    \/ MoveRotate
    \/ \E dx, dy \in UnitSteps : MoveDisplace(dx, dy)

SpecMoves == InitPiece /\ [][NextMoves]_vars

----------------------------------------------------------------------------
(* Piece(): the construction of a piece, one cube at a time *)

\* self.state = set()
InitGrow ==
    /\ state = {}
    /\ board = {}
    /\ pc = "seed"
    /\ op = NoOp
    /\ ret = "-"
    /\ num_deleted_lines = 0
    /\ oldBoard = {}
    /\ oldState = {}
    /\ state0 = {}
    /\ count = 0
    /\ pieces = 0
    /\ score = 0

\* self.state.add((x_start, y_start))
AddSeed ==
    /\ pc = "seed"
    /\ \E k \in 0..(RandomSteps - 1) : state' = state \cup {<<x_start(k), Y_START>>}
    /\ state0' = state'
    /\ pc' = "grow"
    /\ UNCHANGED <<board, op, ret, num_deleted_lines, oldBoard, oldState, count,
                   pieces, score>>

\* one round of "for i in range(3): self.addCubeToState()"
AddCube ==
    /\ pc = "grow"
    /\ count < CUBES
    /\ state' \in addCubeToState(state)
    /\ oldState' = state
    /\ count' = count + 1
    /\ pc' = IF count + 1 = CUBES THEN "grown" ELSE "grow"
    /\ UNCHANGED <<board, op, ret, num_deleted_lines, oldBoard, state0, pieces, score>>

NextGrow == AddSeed \/ AddCube

SpecGrow == InitGrow /\ [][NextGrow]_vars

----------------------------------------------------------------------------
(* main: the driver loop *)

\* what input() can return, as far as main tells the keys apart
Keys == {"L", "R", "r", "other"}

\* the state when main reaches its outer loop
InitMain ==
    /\ board = addLine(addLine({}, 0), 1)
    /\ score = 0
    /\ pc = "new_piece"
    /\ state = {}
    /\ state0 = {}
    /\ pieces = 0
    /\ op = NoOp
    /\ ret = "-"
    /\ num_deleted_lines = 0
    /\ oldBoard = {}
    /\ oldState = {}
    /\ count = 0

\* piece = Piece()
NewPiece ==
    /\ pc = "new_piece"
    /\ pieces < MaxPieces
    /\ state' \in initializeState
    /\ pieces' = pieces + 1
    /\ pc' = "input"
    /\ UNCHANGED <<board, op, ret, num_deleted_lines, oldBoard, oldState, state0,
                   count, score>>

\* key = input(...) and the player callback of the key
Input(key) ==
    /\ pc = "input"
    /\ LET r == CASE key = "L" -> displace(state, -1, 0, board)
                  [] key = "R" -> displace(state, 1, 0, board)
                  [] key = "r" -> [state |-> rotate(state), board |-> board]
                  [] OTHER     -> [state |-> state, board |-> board]
       IN  /\ state' = r.state
           /\ board' = r.board
    /\ pc' = "fall"
    /\ UNCHANGED <<op, ret, num_deleted_lines, oldBoard, oldState, state0,
                   count, pieces, score>>

\* collision_below = piece.displace(0, -1, world); None is not true
Fall ==
    /\ pc = "fall"
    /\ LET r == displace(state, 0, -1, board)
       IN  /\ state' = r.state
           /\ ret' = r.ret
           /\ board' = r.board
           /\ pc' = IF r.ret = "True" THEN "stuck" ELSE "input"
    /\ UNCHANGED <<op, num_deleted_lines, oldBoard, oldState, state0,
                   count, pieces, score>>

\* the piece gets stuck: addPiece, resolveCompleteLines, score, break
Stick ==
    /\ pc = "stuck"
    /\ LET r == resolveCompleteLines(addPiece(board, state))
       IN  /\ board' = r.board
           /\ num_deleted_lines' = r.ret
           /\ score' = score + r.ret
    /\ pc' = "new_piece"
    /\ UNCHANGED <<state, op, ret, oldBoard, oldState, state0, count, pieces>>

NextMain ==
    \/ NewPiece
    \/ \E key \in Keys : Input(key)
    \/ Fall
    \/ Stick

Spec == InitMain /\ [][NextMain]_vars

\* main never stops inside a tick: each read of input() returns a key and the
\* move down follows it
SpecFair ==
    /\ InitMain /\ [][NextMain]_vars
    /\ WF_vars(\E key \in Keys : Input(key))
    /\ WF_vars(Fall)

----------------------------------------------------------------------------
(* main again, with any number of pieces and the keys counted *)

NewPieceAgain ==
    /\ pc = "new_piece"
    /\ state' \in initializeState
    /\ pieces' = pieces + 1
    /\ pc' = "input"
    /\ UNCHANGED <<board, op, ret, num_deleted_lines, oldBoard, oldState, state0,
                   count, score>>

CountedInput(key) ==
    /\ pc = "input"
    /\ count < MaxTicks
    /\ LET r == CASE key = "L" -> displace(state, -1, 0, board)
                  [] key = "R" -> displace(state, 1, 0, board)
                  [] key = "r" -> [state |-> rotate(state), board |-> board]
                  [] OTHER     -> [state |-> state, board |-> board]
       IN  /\ state' = r.state
           /\ board' = r.board
    /\ pc' = "fall"
    /\ count' = count + 1
    /\ UNCHANGED <<op, ret, num_deleted_lines, oldBoard, oldState, state0,
                   pieces, score>>

NextTicks ==
    \/ NewPieceAgain
    \/ \E key \in Keys : CountedInput(key)
    \/ Fall
    \/ Stick

SpecTicks == InitMain /\ [][NextTicks]_vars

----------------------------------------------------------------------------
(* Properties of resolveCompleteLines *)

\* the rows of 0..HEIGHT-1 that hold a cell in every column
CompleteRows(b) == {y \in 0..(HEIGHT - 1) : \A x \in 0..(WIDTH - 1) : <<x, y>> \in b}

DeletedBelow(b, y) == Cardinality({d \in CompleteRows(b) : d < y})

Returned == pc = "returned" /\ op.name = "resolveCompleteLines"

\* C1: for a board inside the grid, resolveCompleteLines leaves exactly the
\* cells of the rows that were not complete, each in its column and lower by
\* the number of complete rows strictly below its row.
C1_Displacement ==
    (Returned /\ InGrid(oldBoard)) =>
        board = {<<c[1], c[2] - DeletedBelow(oldBoard, c[2])>> :
                    c \in {e \in oldBoard : e[2] \notin CompleteRows(oldBoard)}}

\* two complete rows that are not adjacent, a cell between them and one above
C1_Witness ==
    /\ Returned /\ InGrid(oldBoard)
    /\ \E d1, d2 \in CompleteRows(oldBoard) :
         /\ d2 > d1 + 1
         /\ \E c \in oldBoard : c[2] > d1 /\ c[2] < d2 /\ c[2] \notin CompleteRows(oldBoard)
         /\ \E c \in oldBoard : c[2] > d2 /\ c[2] \notin CompleteRows(oldBoard)
         /\ \E c \in board : c[2] = d2 - 2

\* C2: resolveCompleteLines returns the number of rows of 0..HEIGHT-1 that
\* were complete when it was called; when exactly one row was complete it
\* returns 1 and the WIDTH cells of that row are gone: the board has WIDTH
\* cells fewer and that row is no longer complete.
C2_ReturnsCount ==
    Returned =>
        /\ num_deleted_lines = Cardinality(CompleteRows(oldBoard))
        /\ \A d \in CompleteRows(oldBoard) :
             CompleteRows(oldBoard) = {d} =>
                /\ num_deleted_lines = 1
                /\ Cardinality(board) = Cardinality(oldBoard) - WIDTH
                /\ d \notin CompleteRows(board)

\* exactly one complete row, under an incomplete row that is not empty
C2_Witness ==
    /\ Returned
    /\ num_deleted_lines = 1
    /\ \E d \in 0..(HEIGHT - 2) :
         /\ CompleteRows(oldBoard) = {d}
         /\ \E c \in oldBoard : c[2] = d + 1
         /\ \E c \in board : c[2] = d

\* C3: when no row of 0..HEIGHT-1 is complete, resolveCompleteLines returns 0
\* and leaves the board as it was.
C3_NoOpResolve ==
    (Returned /\ CompleteRows(oldBoard) = {}) =>
        (num_deleted_lines = 0 /\ board = oldBoard)

\* a board with cells and no complete row
C3_Witness ==
    /\ Returned
    /\ CompleteRows(oldBoard) = {}
    /\ \E c, e \in oldBoard : c[2] # e[2]
    /\ num_deleted_lines = 0

----------------------------------------------------------------------------
(* Properties of displace *)

Displaced == pc = "returned" /\ op.name = "displace"

\* a cell of the piece as it was would land on a locked cell
LandsOnBoard == \E c \in oldState : <<c[1] + op.dx, c[2] + op.dy>> \in oldBoard

\* a cell of the piece as it was would land left or right of the grid
LandsOutsideX == \E c \in oldState : c[1] + op.dx < 0 \/ c[1] + op.dx >= WIDTH

\* a cell of the piece as it was would land under the floor
LandsBelowFloor == \E c \in oldState : c[2] + op.dy < 0

\* C4: displace(0, -1, world), called when a cell of the piece would land at
\* y < 0 or on a locked cell, leaves the cells of the piece as they were and
\* returns True.
C4_LockSignal ==
    (Displaced /\ op.dx = 0 /\ op.dy = -1 /\ (LandsBelowFloor \/ LandsOnBoard)) =>
        (state = oldState /\ ret = "True")

\* a piece on the floor with no locked cell under it, moved down
C4_WitnessFloor ==
    /\ Displaced /\ op.dx = 0 /\ op.dy = -1
    /\ LandsBelowFloor /\ ~LandsOnBoard /\ ~LandsOutsideX
    /\ ret = "True"

\* C5: displace(dx, 0, world) with dx -1 or 1, called when a cell of the
\* piece would land on a locked cell or at x outside 0..WIDTH-1, leaves the
\* cells of the piece as they were and returns False.
C5_HorizontalAllOrNothing ==
    (Displaced /\ op.dy = 0 /\ op.dx \in {-1, 1} /\ (LandsOnBoard \/ LandsOutsideX)) =>
        (state = oldState /\ ret = "False")

\* a move to the right in which one cell is stopped by the wall and another is free
C5_Witness ==
    /\ Displaced /\ op.dy = 0 /\ op.dx = 1
    /\ \E c \in oldState : c[1] + 1 = WIDTH
    /\ \E c \in oldState : c[1] + 1 < WIDTH /\ <<c[1] + 1, c[2]>> \notin oldBoard
    /\ ~LandsOnBoard
    /\ ret = "False"

\* C6: displace(dx, dy, world) with exactly one of dx, dy nonzero, called
\* when no translated cell is locked, left or right of the grid or under the
\* floor, makes the cells of the piece the translated cells and returns False.
C6_SuccessfulTranslation ==
    (/\ Displaced
     /\ (op.dx = 0) # (op.dy = 0)
     /\ ~LandsOnBoard /\ ~LandsOutsideX /\ ~LandsBelowFloor) =>
        (state = Translated(oldState, op.dx, op.dy) /\ ret = "False")

\* the part of C6 about the cells: they are the translated cells
C6_CellsTranslated ==
    (/\ Displaced
     /\ (op.dx = 0) # (op.dy = 0)
     /\ ~LandsOnBoard /\ ~LandsOutsideX /\ ~LandsBelowFloor) =>
        (state = Translated(oldState, op.dx, op.dy) /\ ret = "None")

----------------------------------------------------------------------------
(* Properties of rotate *)

Max(S) == CHOOSE m \in S : \A n \in S : m >= n

ExtentX(st) == Max({c[1] : c \in st}) - Min({c[1] : c \in st}) + 1

ExtentY(st) == Max({c[2] : c \in st}) - Min({c[2] : c \in st}) + 1

FitsBox(st) == ExtentX(st) <= 3 /\ ExtentY(st) <= 3

\* C10: four calls of rotate in a row return a piece that fits a 3x3 box to
\* the cells it started with, at the same coordinates.
C10_RotationPeriodFour ==
    (op.name = "rotate" /\ count = 4 /\ FitsBox(state0)) => state = state0

\* what holds instead: after four calls the piece has its shape again, higher
C10_RotationDrift ==
    (op.name = "rotate" /\ count = 4 /\ FitsBox(state0)) =>
        \E up \in 1..4 : state = Translated(state0, 0, up)

----------------------------------------------------------------------------
(* Properties of main *)

\* C7: no cell of the board ever has x < 0, x >= WIDTH or y >= HEIGHT.
C7_BoardInBounds ==
    \A c \in board : c[1] >= 0 /\ c[1] < WIDTH /\ c[2] < HEIGHT

\* the part of C7 about the height
C7_BoardBelowTop == \A c \in board : c[2] < HEIGHT

Falling == pc \in {"input", "fall", "stuck"}

\* C8: from the construction of a piece to its lock, after every key and
\* after every move down, the piece and the board have no cell in common.
C8_DisjointWhileFalling == Falling => state \cap board = {}

\* C9: every piece main constructs reaches a tick at which the move down
\* reports a collision, after which main merges it into the board.
C9_EveryPieceLocks == (pc = "input") ~> (pc = "stuck")

----------------------------------------------------------------------------
(* Properties of the construction of a piece *)

Neighbours(c, st) ==
    {e \in st : (e[1] = c[1] /\ (e[2] = c[2] + 1 \/ e[2] = c[2] - 1))
                \/ (e[2] = c[2] /\ (e[1] = c[1] + 1 \/ e[1] = c[1] - 1))}

\* the cells of st that a path of neighbours joins to the cells of reached
RECURSIVE ReachedFrom(_, _)
ReachedFrom(reached, st) ==
    LET more == reached \cup UNION {Neighbours(c, st) : c \in reached}
    IN  IF more = reached THEN reached ELSE ReachedFrom(more, st)

Connected(st) == st # {} /\ \A c \in st : ReachedFrom({c}, st) = st

\* C11: a newly constructed piece has exactly 4 cells, and they form one
\* component under 4-directional adjacency.
C11_GrowthConnectivity ==
    pc = "grown" => (Cardinality(state) = 4 /\ Connected(state))

\* a constructed piece that is not a bar: its last cube joined it sideways
C11_Witness ==
    /\ pc = "grown"
    /\ ExtentX(state) = 2 /\ ExtentY(state) = 3
    /\ Cardinality(oldState) = 3

\* C16: every piece initializeState can make is at most 3 cells wide and at
\* most 3 cells high.
C16_GrownFitsBox == pc = "grown" => FitsBox(state)

----------------------------------------------------------------------------
(* Properties of displace called against its precondition *)

\* C12: displace(dx, dy, world) with dx and dy both zero or both nonzero
\* fails its assertion and changes neither the cells of the piece nor the
\* board.
C12_DisplacePrecondition ==
    (Displaced /\ ((op.dx = 0) = (op.dy = 0))) =>
        (ret = "AssertionError" /\ state = oldState /\ board = oldBoard)

\* a diagonal move whose landing cells are all free
C12_Witness ==
    /\ Displaced
    /\ op.dx # 0 /\ op.dy # 0
    /\ ~LandsOnBoard /\ ~LandsOutsideX /\ ~LandsBelowFloor
    /\ ret = "AssertionError"

----------------------------------------------------------------------------
(* Properties of main, of rotate and of a falling piece *)

\* a cell of the piece lies on the floor or directly above a locked cell
RestsOnSomething == \E c \in state : c[2] = 0 \/ <<c[1], c[2] - 1>> \in board

\* C13: main merges a piece into the board only at a tick where one of its
\* cells is at y = 0 or directly above a locked cell.
C13_LockOnlyFromBelow == pc = "stuck" => RestsOnSomething

\* what the code does instead: a cell beside or beyond a wall locks the piece too
C13_LockFromBelowOrWall ==
    pc = "stuck" =>
        (RestsOnSomething \/ \E c \in state : c[1] < 0 \/ c[1] >= WIDTH)

\* C14: rotate maps each cell (x, y) of a piece that fits the box
\* [min_x, min_x + 2] x [min_y, min_y + 2] to
\* (min_x + (y - min_y), min_y + 2 - (x - min_x)).
C14_QuarterTurn ==
    (op.name = "rotate" /\ FitsBox(oldState)) =>
        LET min_x == Min({c[1] : c \in oldState})
            min_y == Min({c[2] : c \in oldState})
        IN  state = {<<min_x + (c[2] - min_y), min_y + 2 - (c[1] - min_x)>> :
                        c \in oldState}

\* a piece 3 wide and 2 high was rotated and is now 2 wide and 3 high
C14_Witness ==
    /\ op.name = "rotate"
    /\ ExtentX(oldState) = 3 /\ ExtentY(oldState) = 2
    /\ ExtentX(state) = 2 /\ ExtentY(state) = 3

\* C15: after any sequence of calls of rotate and displace, against any
\* board, a piece made by initializeState is still one component under
\* 4-directional adjacency.
C15_StaysConnected == Connected(state)

\* a bar, 4 long, has been rotated and moved
C15_Witness ==
    /\ count = 2
    /\ op.name = "displace" /\ ret = "None"
    /\ ExtentX(state0) = 4
    /\ ExtentY(state) = 4

\* C17: rotate and displace, whatever they return, leave the board as it was.
C17_PieceNeverWritesBoard ==
    op.name \in {"rotate", "displace"} => board = oldBoard

\* a move down that reported a collision over a board that has cells
C17_Witness ==
    /\ op.name = "displace" /\ op.dy = -1
    /\ ret = "True"
    /\ board # {}
    /\ state \cap board = {}

\* C20: after any sequence of calls of rotate and displace a piece made by
\* initializeState, also one wider or higher than 3, still has exactly 4 cells.
C20_FourCells == Cardinality(state) = 4

\* a bar, 4 long, has been rotated twice
C20_Witness ==
    /\ count >= 2
    /\ op.name = "rotate"
    /\ ExtentX(state0) = 4
    /\ ExtentX(state) = 4
    /\ state # state0

----------------------------------------------------------------------------
(* More properties of resolveCompleteLines *)

ColumnCells(b, x) == {c \in b : c[1] = x}

\* C19: resolveCompleteLines, returning k, leaves k * WIDTH cells fewer on the
\* board; each column of 0..WIDTH-1 loses exactly k cells and no other
\* column loses any.
C19_CellConservation ==
    Returned =>
        /\ Cardinality(board) = Cardinality(oldBoard) - num_deleted_lines * WIDTH
        /\ \A x \in (-1)..WIDTH :
             Cardinality(ColumnCells(board, x)) =
                Cardinality(ColumnCells(oldBoard, x))
                    - (IF x >= 0 /\ x < WIDTH THEN num_deleted_lines ELSE 0)

\* two lines were deleted and cells of other rows, one outside the grid, remain
C19_Witness ==
    /\ Returned
    /\ num_deleted_lines = 2
    /\ ~InGrid(oldBoard)
    /\ \E c \in board : c[2] >= 0 /\ c[2] < HEIGHT /\ c[1] >= 0 /\ c[1] < WIDTH

====
